---------------------------- MODULE Spec2Model ----------------------------
(***************************************************************************)
(* Order service (microservices/order-service/main.py): the in-memory     *)
(* list `orders` and the six /api handlers that read and mutate it.       *)
(*                                                                         *)
(* Modelling conventions                                                   *)
(*  - A Python dict order is a record with the same eight keys.           *)
(*  - None is the empty tuple <<>>, a datetime t is the tuple <<t>>.      *)
(*  - price / total_amount are floats in the source; here they are        *)
(*    integers counting hundredths (29.99 is 2999).  For the seeded       *)
(*    order the literal 59.98 is the float product 29.99 * 2.             *)
(*  - str(uuid.uuid4()) is a 36 character string drawn at random; the     *)
(*    generator is idealised as never returning a value it has already    *)
(*    returned (variable `issued`).  The handlers themselves never        *)
(*    compare a new id against the store.                                 *)
(*  - datetime.now() is a logical clock `now`: every reading is later   *)
(*    than the one before.                                                *)
(*  - Handlers run to completion one at a time (no await inside them).    *)
(*  - `call` logs the last request, `resp` the last response; `inserted`  *)
(*    and `patched` are history variables used only by the properties.    *)
(***************************************************************************)
EXTENDS Integers, Sequences, FiniteSets, TLC

VARIABLES orders, now, issued, call, resp, inserted, patched

vars == <<orders, now, issued, call, resp, inserted, patched>>

\* ------------------------------------------------------------------ bounds
\* NumUUIDs: how many values the id generator can hand out.
\* MaxTime: how many times datetime.now() is read after start-up; the
\* handlers that read the clock are disabled once it is reached.
NumUUIDs == 2
MaxTime == 2

\* ------------------------------------------------------------- value sets
None == <<>>

UUID4 == {"uuid-" \o ToString(i) : i \in 1..NumUUIDs}

UserIds == {"1", "2", "3"}
OrderIds == {"1"} \cup UUID4
Addresses == {"123 Main St, City, Country"}

valid_statuses == {"pending", "processing", "shipped", "delivered", "cancelled"}
StatusInputs == valid_statuses \cup {"bogus"}

\* A JSON item as it arrives: qkind/pkind say whether the JSON value is a
\* number; OrderItem only checks that.
RawItem(pid, qk, q, pk, p) ==
    [product_id |-> pid, qkind |-> qk, quantity |-> q, pkind |-> pk, price |-> p]

ItemLists ==
    { <<>>,
      <<RawItem("prod-1", "num", 3, "num", 500),
        RawItem("prod-2", "num", -1, "num", 2999),
        RawItem("prod-3", "num", 1, "num", -250)>>,
      <<RawItem("prod-1", "str", 0, "num", 2999)>> }

OrderCreateInputs ==
    [user_id : {"1", "2"}, items : ItemLists, shipping_address : Addresses]

\* ---------------------------------------------------------- pydantic models
\* OrderItem: quantity: int, price: float -- a type check, no range check.
OrderItem(raw) == raw.qkind = "num" /\ raw.pkind = "num"

\* OrderCreate: items: List[OrderItem].
OrderCreate(body) == \A k \in DOMAIN body.items : OrderItem(body.items[k])

\* item.dict()
item_dict(raw) ==
    [product_id |-> raw.product_id, quantity |-> raw.quantity, price |-> raw.price]

\* ------------------------------------------------------------------ helpers
\* next((i for i, o in enumerate(orders) if o["id"] == order_id), None);
\* 0 stands for None.
find_order(order_id) ==
    IF \E i \in DOMAIN orders : orders[i].id = order_id
    THEN CHOOSE i \in DOMAIN orders :
            /\ orders[i].id = order_id
            /\ \A j \in DOMAIN orders : orders[j].id = order_id => i <= j
    ELSE 0

\* sum(item.price * item.quantity for item in order_data.items), left to
\* right from 0.
RECURSIVE sum_upto(_, _)
sum_upto(items, n) ==
    IF n = 0 THEN 0
    ELSE sum_upto(items, n - 1) + items[n].price * items[n].quantity

\* Mutant: the quantity is left out of the product.
RECURSIVE sum_prices(_, _)
sum_prices(items, n) ==
    IF n = 0 THEN 0 ELSE sum_prices(items, n - 1) + items[n].price

total_amount_prices_only(items) == sum_prices(items, Len(items))

total_amount(items) == sum_upto(items, Len(items))

\* The set of strings one call of str(uuid.uuid4()) may return.
uuid4 == UUID4 \ issued

\* datetime.now(): the next reading of the clock, if the bound allows one.
clock == IF now < MaxTime THEN {now + 1} ELSE {}

\* Mutant: the id is taken from the request instead of the generator.
new_order_id_from_request(order_data, new_id, t) ==
    [ id |-> order_data.user_id,
      user_id |-> order_data.user_id,
      items |-> [k \in DOMAIN order_data.items |-> item_dict(order_data.items[k])],
      total_amount |-> sum_upto(order_data.items, Len(order_data.items)),
      status |-> "pending",
      shipping_address |-> order_data.shipping_address,
      created_at |-> <<t>>,
      updated_at |-> None ]

\* The dict built by create_order.
new_order(order_data, new_id, t) ==
    [ id |-> new_id,
      user_id |-> order_data.user_id,
      items |-> [k \in DOMAIN order_data.items |-> item_dict(order_data.items[k])],
      total_amount |-> total_amount(order_data.items),
      status |-> "pending",
      shipping_address |-> order_data.shipping_address,
      created_at |-> <<t>>,
      updated_at |-> None ]

\* Mutant: "cancelled" is missing from the list.
is_valid_status_short_list(status) == status \in valid_statuses \ {"cancelled"}

\* Mutant: the check is missing.
is_valid_status_any(status) == TRUE

\* status not in valid_statuses -> 400
is_valid_status(status) == status \in valid_statuses

\* Mutant: updated_at is not stamped.
set_status_no_stamp(order, status, t) == [order EXCEPT !.status = status]

\* Mutant: created_at is stamped as well.
set_status_touch_created(order, status, t) ==
    [order EXCEPT !.status = status, !.updated_at = <<t>>, !.created_at = <<t>>]

\* order["status"] = status; order["updated_at"] = datetime.now()
set_status(order, status, t) ==
    [order EXCEPT !.status = status, !.updated_at = <<t>>]

\* Mutant: the filter compares the wrong key.
user_filter_by_id(o, user_id) == o.id = user_id

\* [o for o in orders if o["user_id"] == user_id]
user_filter(o, user_id) == o.user_id = user_id

\* Mutant: orders.pop() without the index removes the last element.
pop_last(seq, order_index) == SubSeq(seq, 1, Len(seq) - 1)

\* orders.pop(order_index): the list without the element at order_index.
pop(seq, order_index) ==
    [j \in 1..(Len(seq) - 1) |-> IF j < order_index THEN seq[j] ELSE seq[j + 1]]

Response(code, data) == [code |-> code, data |-> data]
\* The request log: handler, path parameter, ?status= parameter, and (a
\* history field) the status the addressed order had when the call began.
Call(op, arg, status, prior) ==
    [op |-> op, arg |-> arg, status |-> status, prior |-> prior]

\* The status of the order a path parameter addresses, "" when there is none.
prior_status(order_id) ==
    IF find_order(order_id) = 0 THEN "" ELSE orders[find_order(order_id)].status

\* ---------------------------------------------------------------- initial
SeedOrder ==
    [ id |-> "1",
      user_id |-> "1",
      items |-> <<[product_id |-> "prod-1", quantity |-> 2, price |-> 2999]>>,
      total_amount |-> 5998,
      status |-> "pending",
      shipping_address |-> "123 Main St, City, Country",
      created_at |-> <<0>>,
      updated_at |-> None ]

Init ==
    /\ orders = <<SeedOrder>>
    /\ now = 0
    /\ issued = {}
    /\ call = Call("start", "", "", "")
    /\ resp = Response(0, <<>>)
    /\ inserted = <<"1">>
    /\ patched = {}

\* ---------------------------------------------------------------- handlers
\* GET /api/orders
get_orders ==
    /\ call' = Call("get_orders", "", "", "")
    /\ resp' = Response(200, orders)
    /\ UNCHANGED <<orders, now, issued, inserted, patched>>

\* GET /api/orders/{order_id}
get_order_response(order_id) ==
    IF find_order(order_id) = 0
    THEN Response(404, <<>>)
    ELSE Response(200, <<orders[find_order(order_id)]>>)

get_order(order_id) ==
    /\ call' = Call("get_order", order_id, "", prior_status(order_id))
    /\ resp' = get_order_response(order_id)
    /\ UNCHANGED <<orders, now, issued, inserted, patched>>

\* POST /api/orders
create_order(order_data) ==
    /\ call' = Call("create_order", order_data.user_id, "", "")
    /\ IF ~OrderCreate(order_data)
       THEN /\ resp' = Response(422, <<>>)
            /\ UNCHANGED <<orders, now, issued, inserted, patched>>
       ELSE \E new_id \in uuid4 : \E t \in clock :
            /\ orders' = Append(orders, new_order(order_data, new_id, t))
            /\ resp' = Response(201, <<new_order(order_data, new_id, t)>>)
            /\ now' = t
            /\ issued' = issued \cup {new_id}
            /\ inserted' = Append(inserted, new_id)
            /\ UNCHANGED patched

\* Mutant: the order is assigned before the status is validated.
update_order_status_assign_first(order_id, status) ==
    /\ call' = Call("update_order_status", order_id, status, prior_status(order_id))
    /\ IF find_order(order_id) = 0
       THEN /\ resp' = Response(404, <<>>)
            /\ UNCHANGED <<orders, now, issued, inserted, patched>>
       ELSE \E t \in clock :
            LET i == find_order(order_id) IN
            /\ orders' = [orders EXCEPT ![i] = [@ EXCEPT !.status = status, !.updated_at = <<t>>]]
            /\ now' = t
            /\ IF status \in valid_statuses
               THEN /\ resp' = Response(200, <<orders'[i]>>)
                    /\ patched' = patched \cup {order_id}
               ELSE /\ resp' = Response(400, <<>>)
                    /\ UNCHANGED patched
            /\ UNCHANGED <<issued, inserted>>

\* PATCH /api/orders/{order_id}?status=
update_order_status(order_id, status) ==
    /\ call' = Call("update_order_status", order_id, status, prior_status(order_id))
    /\ IF find_order(order_id) = 0
       THEN /\ resp' = Response(404, <<>>)
            /\ UNCHANGED <<orders, now, issued, inserted, patched>>
       ELSE IF ~is_valid_status(status)
       THEN /\ resp' = Response(400, <<>>)
            /\ UNCHANGED <<orders, now, issued, inserted, patched>>
       ELSE \E t \in clock :
            LET i == find_order(order_id) IN
            /\ orders' = [orders EXCEPT ![i] = set_status(orders[i], status, t)]
            /\ resp' = Response(200, <<set_status(orders[i], status, t)>>)
            /\ now' = t
            /\ patched' = patched \cup {order_id}
            /\ UNCHANGED <<issued, inserted>>

\* GET /api/users/{user_id}/orders
get_user_orders_response(user_id) ==
    Response(200, SelectSeq(orders, LAMBDA o : user_filter(o, user_id)))

get_user_orders(user_id) ==
    /\ call' = Call("get_user_orders", user_id, "", "")
    /\ resp' = get_user_orders_response(user_id)
    /\ UNCHANGED <<orders, now, issued, inserted, patched>>

\* DELETE /api/orders/{order_id}
delete_order(order_id) ==
    /\ call' = Call("delete_order", order_id, "", prior_status(order_id))
    /\ IF find_order(order_id) = 0
       THEN /\ resp' = Response(404, <<>>)
            /\ UNCHANGED <<orders, now, issued, inserted, patched>>
       ELSE /\ orders' = pop(orders, find_order(order_id))
            /\ resp' = Response(200, <<orders[find_order(order_id)]>>)
            /\ UNCHANGED <<now, issued, inserted, patched>>

Next ==
    \/ get_orders
    \/ \E order_id \in OrderIds : get_order(order_id)
    \/ \E order_data \in OrderCreateInputs : create_order(order_data)
    \/ \E order_id \in OrderIds : \E status \in StatusInputs :
          update_order_status(order_id, status)
    \/ \E user_id \in UserIds : get_user_orders(user_id)
    \/ \E order_id \in OrderIds : delete_order(order_id)

Spec == Init /\ [][Next]_vars

\* ------------------------------------------------------ property vocabulary
Reads == {"get_orders", "get_order", "get_user_orders"}

HasOrder(seq, order_id) == \E i \in DOMAIN seq : seq[i].id = order_id

\* The sequence seq with position i taken out.
Without(seq, i) == SubSeq(seq, 1, i - 1) \o SubSeq(seq, i + 1, Len(seq))

\* Sum of price * quantity over a stored item list.
RECURSIVE Subtotals(_)
Subtotals(items) ==
    IF items = <<>> THEN 0
    ELSE items[1].price * items[1].quantity + Subtotals(Tail(items))

\* Where an id stands in the insertion log.
InsertedAt(order_id) == CHOOSE k \in DOMAIN inserted : inserted[k] = order_id

\* The positions of the store that belong to user u, and the k-th of them.
PositionsOf(u) == {i \in DOMAIN orders : orders[i].user_id = u}
NthPosition(u, k) ==
    CHOOSE i \in PositionsOf(u) : Cardinality({j \in PositionsOf(u) : j < i}) = k - 1

\* data is exactly the orders of u: all of them, each once, in store order,
\* which is the order of insertion.
IsUserSlice(data, u) ==
    /\ Len(data) = Cardinality(PositionsOf(u))
    /\ \A k \in DOMAIN data : data[k] = orders[NthPosition(u, k)]
    /\ \A k, l \in DOMAIN data :
          k < l => /\ data[k].id # data[l].id
                   /\ InsertedAt(data[k].id) < InsertedAt(data[l].id)

\* ------------------------------------------------------------------ claims

\* C1: no two orders in the store have the same id, and the order that a
\* successful create_order appends has an id no other stored order has.
C1_UniqueIds ==
    /\ \A i, j \in DOMAIN orders : i # j => orders[i].id # orders[j].id
    /\ (call.op = "create_order" /\ resp.code = 201) =>
          /\ orders[Len(orders)] = resp.data[1]
          /\ \A i \in 1..(Len(orders) - 1) : orders[i].id # resp.data[1].id

C1_Witness ==
    /\ call.op = "create_order" /\ resp.code = 201
    /\ Len(orders) = 3
    /\ orders[1].id = "1"

\* C2: on an order that is in the store, update_order_status with one of
\* the five statuses answers 200 whatever the current status is and leaves
\* the order with the requested status; with any other string it answers 400.
C2_UpdateAnyToAny ==
    [][ (call'.op = "update_order_status" /\ HasOrder(orders, call'.arg)) =>
          IF call'.status \in valid_statuses
          THEN /\ resp'.code = 200
               /\ \E i \in DOMAIN orders' :
                     /\ orders'[i].id = call'.arg
                     /\ orders'[i].status = call'.status
                     /\ resp'.data = <<orders'[i]>>
          ELSE resp'.code = 400 ]_vars

C2_Witness ==
    /\ call.op = "update_order_status" /\ resp.code = 200
    /\ call.prior = "cancelled" /\ call.status = "pending"
    /\ \E i \in DOMAIN orders : orders[i].id = call.arg /\ orders[i].status = "pending"

\* C3: update_order_status on an existing order with an unrecognised status
\* answers 400 and leaves the whole store as it was.
C3_FailedUpdateNoChange ==
    [][ (/\ call'.op = "update_order_status"
         /\ HasOrder(orders, call'.arg)
         /\ call'.status \notin valid_statuses) =>
          (resp'.code = 400 /\ orders' = orders) ]_vars

C3_Witness ==
    /\ call.op = "update_order_status" /\ resp.code = 400
    /\ call.status = "bogus"
    /\ Len(orders) >= 2
    /\ \E i \in DOMAIN orders :
          orders[i].id = call.arg /\ orders[i].status = "shipped"

\* C4: a successful delete_order returns the order it found, removes exactly
\* that record (the others stay, in their order), and leaves no order with
\* that id, so get_order on the id then answers 404.
C4_DeleteRemoves ==
    [][ (call'.op = "delete_order" /\ resp'.code = 200) =>
          /\ \E i \in DOMAIN orders :
                /\ orders[i].id = call'.arg
                /\ resp'.data = <<orders[i]>>
                /\ orders' = Without(orders, i)
          /\ ~HasOrder(orders', call'.arg)
          /\ \A order_id \in OrderIds :
                order_id = call'.arg => (get_order_response(order_id))'.code = 404 ]_vars

C4_Witness ==
    /\ call.op = "delete_order" /\ resp.code = 200
    /\ Len(orders) = 2 /\ Len(inserted) = 3
    /\ resp.data[1].id = inserted[2]

\* C5: every stored order has one of the five statuses, and the order that
\* create_order has just inserted is pending.
C5_StatusInEnum ==
    /\ \A i \in DOMAIN orders :
          orders[i].status \in
             {"pending", "processing", "shipped", "delivered", "cancelled"}
    /\ (call.op = "create_order" /\ resp.code = 201) =>
          /\ orders[Len(orders)].status = "pending"
          /\ resp.data[1].status = "pending"

C5_Witness ==
    /\ call.op = "create_order" /\ resp.code = 201
    /\ \E i \in DOMAIN orders : orders[i].status = "cancelled"

\* C6: an order's updated_at is null exactly when no update_order_status
\* has succeeded on it.
C6_UpdatedAtIffPatched ==
    \A i \in DOMAIN orders :
        (orders[i].updated_at = None) <=> (orders[i].id \notin patched)

C6_Witness ==
    /\ call.op = "update_order_status" /\ resp.code = 400
    /\ \E i, j \in DOMAIN orders :
          /\ orders[i].id = call.arg /\ orders[i].updated_at = None
          /\ orders[j].updated_at # None

\* C7: every stored order's total_amount is the sum of price * quantity over
\* its items (0 for no items), and no step changes the total_amount or the
\* items of an order that stays in the store.
C7_TotalIsSum ==
    /\ [](\A i \in DOMAIN orders : orders[i].total_amount = Subtotals(orders[i].items))
    /\ [][ \A i \in DOMAIN orders : \A j \in DOMAIN orders' :
              orders[i].id = orders'[j].id =>
                 /\ orders'[j].total_amount = orders[i].total_amount
                 /\ orders'[j].items = orders[i].items ]_vars

C7_Witness ==
    /\ call.op = "delete_order" /\ resp.code = 200
    /\ \E i \in DOMAIN orders :
          /\ orders[i].items = <<>>
          /\ orders[i].total_amount = 0
          /\ orders[i].updated_at # None

\* C8: every item of every stored order has quantity >= 0 and price >= 0.
C8_ItemsNonNegative ==
    \A i \in DOMAIN orders : \A k \in DOMAIN orders[i].items :
        orders[i].items[k].quantity >= 0 /\ orders[i].items[k].price >= 0

\* C9: get_user_orders(u) answers 200 with exactly the stored orders of u,
\* each once, in the order of insertion; for a user without orders the
\* answer is the empty list.
C9_UserOrders ==
    /\ \A u \in UserIds :
          /\ get_user_orders_response(u).code = 200
          /\ IsUserSlice(get_user_orders_response(u).data, u)
          /\ (PositionsOf(u) = {}) => get_user_orders_response(u).data = <<>>
    /\ call.op = "get_user_orders" =>
          (resp.code = 200 /\ IsUserSlice(resp.data, call.arg))

C9_Witness ==
    /\ call.op = "get_user_orders" /\ resp.code = 200
    /\ Len(resp.data) = 2
    /\ Len(orders) = 2 /\ Len(inserted) = 3
    /\ get_user_orders_response("3").data = <<>>

\* C10: a successful update_order_status changes nothing but the status and
\* updated_at of the order addressed: the list keeps its length and order,
\* every other order and every other field stays; the three read handlers
\* leave the store as it was.
C10_UpdateFrame ==
    [][ /\ (call'.op = "update_order_status" /\ resp'.code = 200) =>
             /\ Len(orders') = Len(orders)
             /\ \A i \in DOMAIN orders :
                   IF orders[i].id = call'.arg
                   THEN orders'[i] = [orders[i] EXCEPT
                                         !.status = orders'[i].status,
                                         !.updated_at = orders'[i].updated_at]
                   ELSE orders'[i] = orders[i]
        /\ (call'.op \in Reads) => orders' = orders ]_vars

C10_Witness ==
    /\ call.op = "update_order_status" /\ resp.code = 200
    /\ Len(orders) = 2
    /\ orders[2].id = call.arg
    /\ orders[2].status = "delivered"
    /\ orders[1].status = "pending"

=============================================================================
